---- MODULE Spec2Model ----
(***************************************************************************)
(* A model of the Pi provider driver                                       *)
(* (packages/shared/src/agent/backend/internal/drivers/pi.ts):             *)
(*   - fetchCopilotModels and the driver's fetchModels, as processes that  *)
(*     suspend at their awaits and share process.env.COPILOT_GITHUB_TOKEN; *)
(*   - probeConnection, with testConnection and validateStoredConnection   *)
(*     in front of it.                                                     *)
(* One action is one run of JavaScript from a resumption to the next       *)
(* await (run-to-completion), so the interleavings of the model are the    *)
(* interleavings of the event loop.                                        *)
(***************************************************************************)
EXTENDS Integers, Sequences, FiniteSets, TLC

(***************************************************************************)
(* Bounds                                                                  *)
(***************************************************************************)
\* Number of fetchCopilotModels calls that may be in flight together.
NumCalls == 2
\* Longest list client.listModels() resolves to.
MaxRemote == 2
\* Longest connection.models list of a custom-endpoint connection.
MaxCustom == 2

Calls == 1..NumCalls

(***************************************************************************)
(* Values                                                                  *)
(***************************************************************************)
\* process.env.COPILOT_GITHUB_TOKEN absent (reads as undefined).
Unset == "<unset>"
\* An optional field that is undefined.
Undefined == "<undefined>"
\* The token of the environment before any call: absent, or a string.
PrevTokens == {Unset, "ghu_prev"}
\* The access token of call c; distinct calls carry distinct tokens.
TokenOf(c) == "gho_token_" \o ToString(c)

\* Errors, named by where they are created.
ImportError == "import('@github/copilot-sdk') rejected"
ConstructError == "new CopilotClient threw"
StartError == "client.start() rejected"
StartTimeoutError == "Copilot client failed to start within timeout."
ListError == "client.listModels() rejected"
ListTimeoutError == "Copilot model listing timed out."
StopError == "client.stop() rejected"
NoModelsError == "No models returned from Copilot API."
NoEnabledModelsError == "No enabled models found."
NoPiModelsError == "No Pi models found for provider"
NoError == "<none>"

\* The errors the first try block of fetchCopilotModels can catch.
RaceErrors == {StartError, StartTimeoutError, ListError, ListTimeoutError}

(***************************************************************************)
(* Models as client.listModels() reports them, and as the driver returns   *)
(* them.                                                                   *)
(***************************************************************************)
\* policy: "none" is an entry without a policy field; otherwise policy.state.
\* efforts: supportedReasoningEfforts undefined, [] or non-empty.
RemoteModel(id, name, policy, efforts) ==
    [id |-> id, name |-> name, policy |-> policy, efforts |-> efforts]

RemotePool ==
    { RemoteModel("gpt-4o", "GPT-4o", "none", "undefined"),
      RemoteModel("claude", "Claude", "enabled", "some"),
      RemoteModel("o3", "o3", "disabled", "some"),
      RemoteModel("gemini", "Gemini", "unconfigured", "empty"),
      RemoteModel("gpt-4o", "GPT-4o (preview)", "enabled", "some") }

SeqsUpTo(S, n) == UNION { [1..k -> S] : k \in 0..n }

\* What listModels() resolves to: null/undefined, or a list.
Listing(isNull, items) == [isNull |-> isNull, items |-> items]
RemoteListings ==
    { Listing(TRUE, <<>>) } \cup { Listing(FALSE, s) : s \in SeqsUpTo(RemotePool, MaxRemote) }
\* The listings the concurrent calls draw from.
ConcurrentListings ==
    { Listing(FALSE, <<>>),
      Listing(FALSE, << RemoteModel("claude", "Claude", "enabled", "some") >>) }
NoListing == Listing(TRUE, <<>>)

ModelDefinition(id, name, shortName, description, contextWindow, supportsThinking) ==
    [id |-> id, name |-> name, shortName |-> shortName, description |-> description,
     provider |-> "pi", contextWindow |-> contextWindow,
     supportsThinking |-> supportsThinking]

\* The filter that leaves out only the models whose policy state is
\* 'disabled'.
IsEnabledModelUnlessDisabled(m) == m.policy # "disabled"

\* m => !m.policy || m.policy.state === 'enabled'
IsEnabledModel(m) == m.policy = "none" \/ m.policy = "enabled"

\* The descriptor fetchCopilotModels builds of one remote model.
CopilotDescriptor(m) ==
    ModelDefinition(m.id, m.name, m.name, "", 200000, m.efforts = "some")

\* The outcome of a call: nothing yet, a returned list, or a thrown error.
NoOutcome == [kind |-> "none", models |-> <<>>, error |-> NoError]
Returned(ms) == [kind |-> "return", models |-> ms, error |-> NoError]
Threw(e) == [kind |-> "throw", models |-> <<>>, error |-> e]

\* Lines 59-79: what fetchCopilotModels does with the listing once the client
\* is stopped (filter is SelectSeq, map a function over the indices).
CopilotResult(listing) ==
    IF listing.isNull \/ Len(listing.items) = 0 THEN Threw(NoModelsError)
    ELSE LET enabledModels == SelectSeq(listing.items, IsEnabledModel)
         IN IF Len(enabledModels) = 0 THEN Threw(NoEnabledModelsError)
            ELSE Returned([i \in 1..Len(enabledModels) |->
                              CopilotDescriptor(enabledModels[i])])

(***************************************************************************)
(* Connections, credentials and the static registry                        *)
(***************************************************************************)
\* JavaScript truthiness of an optional string.
Truthy(s) == s # Undefined /\ s # ""

\* An entry of connection.models: a bare string, or a full descriptor.
BareModel(s) == [isString |-> TRUE, str |-> s, def |-> ModelDefinition("", "", "", "", 0, FALSE)]
FullModel(d) == [isString |-> FALSE, str |-> "", def |-> d]

CustomPool ==
    { BareModel("model-a"),
      BareModel("model-b"),
      FullModel(ModelDefinition("model-a", "Model A", "A", "declared by the user", 32000, TRUE)) }

\* connection.models: undefined, or a list.
ModelList(defined, items) == [defined |-> defined, items |-> items]
CustomLists ==
    { ModelList(FALSE, <<>>) } \cup { ModelList(TRUE, s) : s \in SeqsUpTo(CustomPool, MaxCustom) }

Connection(piAuthProvider, baseUrl, models) ==
    [piAuthProvider |-> piAuthProvider, baseUrl |-> baseUrl, models |-> models]
Connections ==
    { Connection(p, b, m) :
        p \in {Undefined, "github-copilot", "anthropic", "no-such-provider"},
        b \in {Undefined, "", "https://llm.example"},
        m \in CustomLists }
NoConnection == Connection(Undefined, Undefined, ModelList(FALSE, <<>>))

\* credentials.oauthAccessToken of a fetchModels call.
OAuthTokens == {Undefined, "", TokenOf(1)}

\* The static Pi SDK model registry (config/models-pi.ts), each entry with the
\* auth provider it belongs to.
PiRegistry ==
    << [piAuthProvider |-> "anthropic",
        model |-> ModelDefinition("pi/claude-sonnet", "Claude Sonnet", "Sonnet", "", 200000, TRUE)],
       [piAuthProvider |-> "anthropic",
        model |-> ModelDefinition("pi/claude-haiku", "Claude Haiku", "Haiku", "", 200000, FALSE)],
       [piAuthProvider |-> "github-copilot",
        model |-> ModelDefinition("pi/gpt-4o", "GPT-4o", "GPT-4o", "", 128000, FALSE)] >>

RegistryModel(e) == e.model

\* getAllPiModels()
getAllPiModels == [i \in 1..Len(PiRegistry) |-> RegistryModel(PiRegistry[i])]

\* getPiModelsForAuthProvider(provider)
getPiModelsForAuthProvider(provider) ==
    LET OfProvider(e) == e.piAuthProvider = provider
        found == SelectSeq(PiRegistry, OfProvider)
    IN [i \in 1..Len(found) |-> RegistryModel(found[i])]

\* The resolution that looks at the baseUrl before the Copilot rule.
StrategyBaseUrlFirst(connection, oauthAccessToken) ==
    IF Truthy(connection.baseUrl) THEN "custom"
    ELSE IF connection.piAuthProvider = "github-copilot" /\ Truthy(oauthAccessToken)
         THEN "copilot"
         ELSE "registry"

\* Lines 193, 203: the strategy fetchModels takes, by the first rule that
\* matches.
Strategy(connection, oauthAccessToken) ==
    IF connection.piAuthProvider = "github-copilot" /\ Truthy(oauthAccessToken)
    THEN "copilot"
    ELSE IF Truthy(connection.baseUrl) THEN "custom" ELSE "registry"

\* The upgrade that rebuilds every entry, a full descriptor included, with
\* the generic defaults.
UpgradeModelRebuildsAll(m) ==
    LET id == IF m.isString THEN m.str ELSE m.def.id
    IN ModelDefinition(id, id, id, "Custom model", 128000, FALSE)

\* Lines 207-216: a bare string becomes a descriptor, a descriptor is kept.
UpgradeModel(m) ==
    IF m.isString
    THEN ModelDefinition(m.str, m.str, m.str, "Custom model", 128000, FALSE)
    ELSE m.def

\* Lines 203-219: the custom-endpoint strategy.
CustomEndpointResult(connection) ==
    LET existingModels == IF connection.models.defined THEN connection.models.items ELSE <<>>
    IN Returned([i \in 1..Len(existingModels) |-> UpgradeModel(existingModels[i])])

\* Lines 221-232: the static-registry strategy.
RegistryResult(connection) ==
    LET models == IF Truthy(connection.piAuthProvider)
                  THEN getPiModelsForAuthProvider(connection.piAuthProvider)
                  ELSE getAllPiModels
    IN IF Len(models) = 0 THEN Threw(NoPiModelsError) ELSE Returned(models)

(***************************************************************************)
(* State                                                                   *)
(***************************************************************************)
VARIABLES
    env,         \* process.env.COPILOT_GITHUB_TOKEN
    env0,        \* its value before any call began (never changes)
    pc,          \* where each call is
    accessToken, \* the accessToken argument of each call
    prevToken,   \* the prevToken each call saved
    startTimer,  \* the timer of the race against client.start()
    listTimer,   \* the timer of the race against client.listModels()
    listed,      \* what client.listModels() resolved to
    caught,      \* the error the catch block of the call holds
    stopResult,  \* how client.stop() settled
    outcome,     \* what the call returned or threw
    conn,        \* the connection of the fetchModels call
    oauth,       \* credentials.oauthAccessToken of the fetchModels call
    strategy     \* the strategy the fetchModels call took

cvars == <<env, env0, pc, accessToken, prevToken, startTimer, listTimer, listed,
           caught, stopResult, outcome, conn, oauth, strategy>>

\* What only the entry of fetchModels writes.
dvars == <<conn, oauth, strategy>>

\* The probe: probeConnection with testConnection and
\* validateStoredConnection in front of it.
VARIABLES
    entry,       \* the function the caller invoked
    probePc,     \* where the call is
    storedConn,  \* the connection validateStoredConnection was given
    store,       \* the credential store: the key on record for each slug
    args,        \* the arguments probeConnection received
    timer,       \* the timer armed at line 118
    aborted,     \* controller.signal.aborted
    request,     \* the request handed to fetchFn
    response,    \* the status received, and the body once it is read
    probeErr,    \* the error the catch block at line 160 holds
    probeResult  \* what the call resolved to (or threw)

pvars == <<entry, probePc, storedConn, store, args, timer, aborted, request,
           response, probeErr, probeResult>>

\* A second call of probeConnection with the arguments of the first.
VARIABLES
    run,         \* 1 during the first call of the probe, 2 during the second
    first        \* what the first call saw and resolved to, once it is over

rvars == <<run, first>>

\* The providers settings page (ProvidersSettingsPage.tsx) with its API setup
\* overlay, and the credentials step (APISetupStep.tsx) the overlay shows.
VARIABLES
    showApiSetup,          \* useState: the overlay is open
    editingConnectionSlug, \* useState: the slug handed to useOnboarding as editingSlug
    isDirectEdit,          \* useState
    editInitialValues,     \* useState: the values the credentials step is seeded with
    pendingEdit,           \* the handleEdit call suspended at getLlmConnectionApiKey
    onboarding,            \* the state of useOnboarding: step and method
    flowStart,             \* the last jumpToCredentials / handleStartOAuth call
    stepProps,             \* the props CredentialsStep is rendered with
    stepView               \* what CredentialsStep rendered of them

\* The validations of the settings page (handleValidate).
VARIABLES
    validationStates,      \* useState: the validation state (and error) of each slug
    testsInFlight,         \* the testLlmConnection calls of each slug that are pending
    resetTimers            \* the reset-to-idle timers of each slug that are pending

gvars == <<showApiSetup, editingConnectionSlug, isDirectEdit, editInitialValues,
           pendingEdit, onboarding, flowStart>>
svars == <<stepProps, stepView>>
vvars == <<validationStates, testsInFlight, resetTimers>>
uvars == <<gvars, svars, vvars>>

\* The list of connections: the providers panel (ProvidersListPanel in
\* playground/registry/icons.tsx) with the selection it shares with the
\* settings page, and the deletions of the settings page.
VARIABLES
    llmConnections,        \* useAppShellContext().llmConnections, as the list of slugs
    savedConnections,      \* the slugs of the connections the main process holds
    selectedSlug,          \* selectedProviderSlugAtom
    deletesInFlight,       \* the slugs whose deleteLlmConnection call is pending
    autoSelect             \* whether the auto-select effect is due, and the selection
                           \* at the change that made it due

lvars == <<llmConnections, savedConnections, selectedSlug, deletesInFlight, autoSelect>>

\* Everything outside the fetchModels calls, outside the probe, outside the
\* settings page and the credentials step, outside the list.
notCalls == <<pvars, rvars, uvars, lvars>>
notProbe == <<cvars, rvars, uvars, lvars>>
notUi == <<cvars, pvars, rvars, lvars>>
notList == <<cvars, pvars, rvars, uvars>>

vars == <<cvars, pvars, rvars, uvars, lvars>>

Settled(c) == pc[c] \in {"returned", "threw"}

(***************************************************************************)
(* fetchCopilotModels                                                      *)
(***************************************************************************)
\* Lines 27-33: restoreEnv, as the value the variable gets: the saved string
\* is assigned back, and a variable that was absent is deleted.
RestoreEnv(c) == IF prevToken[c] # Unset THEN prevToken[c] ELSE Unset

InitCalls ==
    /\ env0 \in PrevTokens
    /\ env = env0
    /\ pc = [c \in Calls |-> "idle"]
    /\ accessToken = [c \in Calls |-> Undefined]
    /\ prevToken = [c \in Calls |-> Undefined]
    /\ startTimer = [c \in Calls |-> "unarmed"]
    /\ listTimer = [c \in Calls |-> "unarmed"]
    /\ listed = [c \in Calls |-> NoListing]
    /\ caught = [c \in Calls |-> NoError]
    /\ stopResult = [c \in Calls |-> "none"]
    /\ outcome = [c \in Calls |-> NoOutcome]
    /\ conn = [c \in Calls |-> NoConnection]
    /\ oauth = [c \in Calls |-> Undefined]
    /\ strategy = [c \in Calls |-> "none"]

\* Line 10-15: the call is made and suspends at the dynamic import.
CallFetchCopilotModels(c, token) ==
    /\ pc[c] = "idle"
    /\ pc' = [pc EXCEPT ![c] = "importing"]
    /\ accessToken' = [accessToken EXCEPT ![c] = token]
    /\ UNCHANGED <<env, env0, prevToken, startTimer, listTimer, listed, caught,
                   stopResult, outcome, dvars, notCalls>>

\* Line 15: the import rejects; nothing was touched yet.
ImportFails(c) ==
    /\ pc[c] = "importing"
    /\ pc' = [pc EXCEPT ![c] = "threw"]
    /\ outcome' = [outcome EXCEPT ![c] = Threw(ImportError)]
    /\ UNCHANGED <<env, env0, accessToken, prevToken, startTimer, listTimer,
                   listed, caught, stopResult, dvars, notCalls>>

\* Lines 17-42: the token is saved and written, the client is constructed,
\* client.start() is called and raced against a timer.
WriteTokenAndStart(c) ==
    /\ pc[c] = "importing"
    /\ prevToken' = [prevToken EXCEPT ![c] = env]
    /\ env' = accessToken[c]
    /\ startTimer' = [startTimer EXCEPT ![c] = "pending"]
    /\ pc' = [pc EXCEPT ![c] = "starting"]
    /\ UNCHANGED <<env0, accessToken, listTimer, listed, caught, stopResult, outcome, dvars, notCalls>>

\* Lines 17-25: the token is saved and written, and the constructor throws:
\* the exception leaves the function from outside its try block.
WriteTokenAndConstructThrows(c) ==
    /\ pc[c] = "importing"
    /\ prevToken' = [prevToken EXCEPT ![c] = env]
    /\ env' = accessToken[c]
    /\ pc' = [pc EXCEPT ![c] = "threw"]
    /\ outcome' = [outcome EXCEPT ![c] = Threw(ConstructError)]
    /\ UNCHANGED <<env0, accessToken, startTimer, listTimer, listed, caught, stopResult, dvars, notCalls>>

\* Lines 50-52: the catch block: restoreEnv(), then client.stop() is awaited.
CatchRaceError(c, error) ==
    /\ caught' = [caught EXCEPT ![c] = error]
    /\ env' = RestoreEnv(c)
    /\ pc' = [pc EXCEPT ![c] = "stoppingAfterError"]

\* Lines 37-49: client.start() resolved; client.listModels() is called and
\* raced against a second timer.  The first timer is left as it is.
StartResolves(c) ==
    /\ pc[c] = "starting"
    /\ listTimer' = [listTimer EXCEPT ![c] = "pending"]
    /\ pc' = [pc EXCEPT ![c] = "listing"]
    /\ UNCHANGED <<env, env0, accessToken, prevToken, startTimer, listed, caught,
                   stopResult, outcome, dvars, notCalls>>

\* Lines 37-42, 50: client.start() rejected.
StartRejects(c) ==
    /\ pc[c] = "starting"
    /\ CatchRaceError(c, StartError)
    /\ UNCHANGED <<env0, accessToken, prevToken, startTimer, listTimer, listed,
                   stopResult, outcome, dvars, notCalls>>

\* Lines 39-41: the timer of the first race fires.  It rejects the race when
\* the call still waits for client.start(); later it rejects a promise
\* nobody waits for.
StartTimerFires(c) ==
    /\ startTimer[c] = "pending"
    /\ startTimer' = [startTimer EXCEPT ![c] = "fired"]
    /\ IF pc[c] = "starting"
       THEN CatchRaceError(c, StartTimeoutError)
       ELSE UNCHANGED <<env, pc, caught>>
    /\ UNCHANGED <<env0, accessToken, prevToken, listTimer, listed, stopResult, outcome, dvars, notCalls>>

\* Lines 44-49, 56: client.listModels() resolved; client.stop() is awaited.
ListResolves(c, listing) ==
    /\ pc[c] = "listing"
    /\ listed' = [listed EXCEPT ![c] = listing]
    /\ pc' = [pc EXCEPT ![c] = "stopping"]
    /\ UNCHANGED <<env, env0, accessToken, prevToken, startTimer, listTimer, caught,
                   stopResult, outcome, dvars, notCalls>>

\* Lines 44-50: client.listModels() rejected.
ListRejects(c) ==
    /\ pc[c] = "listing"
    /\ CatchRaceError(c, ListError)
    /\ UNCHANGED <<env0, accessToken, prevToken, startTimer, listTimer, listed,
                   stopResult, outcome, dvars, notCalls>>

\* Lines 46-48: the timer of the second race fires.
ListTimerFires(c) ==
    /\ listTimer[c] = "pending"
    /\ listTimer' = [listTimer EXCEPT ![c] = "fired"]
    /\ IF pc[c] = "listing"
       THEN CatchRaceError(c, ListTimeoutError)
       ELSE UNCHANGED <<env, pc, caught>>
    /\ UNCHANGED <<env0, accessToken, prevToken, startTimer, listed, stopResult, outcome, dvars, notCalls>>

\* Lines 56-79: client.stop() settled after a listing (a rejection is
\* swallowed); restoreEnv(), then the listing is filtered and mapped.
StopSettlesAfterListing(c, how) ==
    /\ pc[c] = "stopping"
    /\ stopResult' = [stopResult EXCEPT ![c] = how]
    /\ env' = RestoreEnv(c)
    /\ outcome' = [outcome EXCEPT ![c] = CopilotResult(listed[c])]
    /\ pc' = [pc EXCEPT ![c] =
                IF CopilotResult(listed[c]).kind = "return" THEN "returned" ELSE "threw"]
    /\ UNCHANGED <<env0, accessToken, prevToken, startTimer, listTimer, listed, caught, dvars, notCalls>>

\* A cleanup that lets a rejection of stop() replace the caught error.
ErrorAfterCleanupMasked(c, how) == IF how = "rejected" THEN StopError ELSE caught[c]

\* Lines 52-53: what the call throws once client.stop() settled in the catch
\* block: the caught error, whether stop() resolved or rejected.
ErrorAfterCleanup(c, how) == caught[c]

\* Lines 52-53: client.stop() settled in the catch block; the caught error is
\* rethrown.
StopSettlesAfterError(c, how) ==
    /\ pc[c] = "stoppingAfterError"
    /\ stopResult' = [stopResult EXCEPT ![c] = how]
    /\ outcome' = [outcome EXCEPT ![c] = Threw(ErrorAfterCleanup(c, how))]
    /\ pc' = [pc EXCEPT ![c] = "threw"]
    /\ UNCHANGED <<env, env0, accessToken, prevToken, startTimer, listTimer, listed,
                   caught, dvars, notCalls>>

StopOutcomes == {"resolved", "rejected"}

(***************************************************************************)
(* piDriver.fetchModels                                                    *)
(***************************************************************************)
\* Lines 191-233: fetchModels.  The Copilot strategy calls fetchCopilotModels
\* and suspends with it at the import; the two other strategies have no await
\* and complete in the same run.
FetchModels(c, connection, oauthAccessToken) ==
    LET how == Strategy(connection, oauthAccessToken)
        result == IF how = "custom" THEN CustomEndpointResult(connection)
                  ELSE RegistryResult(connection)
    IN /\ pc[c] = "idle"
       /\ conn' = [conn EXCEPT ![c] = connection]
       /\ oauth' = [oauth EXCEPT ![c] = oauthAccessToken]
       /\ strategy' = [strategy EXCEPT ![c] = how]
       /\ IF how = "copilot"
          THEN /\ pc' = [pc EXCEPT ![c] = "importing"]
               /\ accessToken' = [accessToken EXCEPT ![c] = oauthAccessToken]
               /\ UNCHANGED outcome
          ELSE /\ pc' = [pc EXCEPT ![c] = IF result.kind = "return" THEN "returned" ELSE "threw"]
               /\ outcome' = [outcome EXCEPT ![c] = result]
               /\ UNCHANGED accessToken
       /\ UNCHANGED <<env, env0, prevToken, startTimer, listTimer, listed, caught,
                      stopResult, notCalls>>

(***************************************************************************)
(* Strings of the probe.  A string is a sequence of fragments; a fragment  *)
(* stands for a piece of text that the operations below never split.       *)
(***************************************************************************)
\* An optional argument: undefined, or a value.
Absent(v) == [defined |-> FALSE, value |-> v]
Present(v) == [defined |-> TRUE, value |-> v]

\* String.prototype.trim, with " " the whitespace fragment.
RECURSIVE TrimStart(_)
TrimStart(s) == IF s # <<>> /\ Head(s) = " " THEN TrimStart(Tail(s)) ELSE s
RECURSIVE TrimEnd(_)
TrimEnd(s) ==
    IF s # <<>> /\ s[Len(s)] = " " THEN TrimEnd(SubSeq(s, 1, Len(s) - 1)) ELSE s
Trim(s) == TrimEnd(TrimStart(s))

\* s.replace(/\/+$/, '')
RECURSIVE StripTrailingSlashes(_)
StripTrailingSlashes(s) ==
    IF s # <<>> /\ s[Len(s)] = "/"
    THEN StripTrailingSlashes(SubSeq(s, 1, Len(s) - 1))
    ELSE s

\* String.prototype.endsWith
EndsWith(s, suffix) ==
    /\ Len(s) >= Len(suffix)
    /\ SubSeq(s, Len(s) - Len(suffix) + 1, Len(s)) = suffix

\* String.prototype.includes, for a text that is one fragment.
Includes(s, fragment) == \E i \in 1..Len(s) : s[i] = fragment

\* Line 111: the default endpoint.
DefaultBase == << "https://api.pi-ai.workers.dev" >>

\* Line 111: (baseUrl ?? '').trim() || default
EffectiveBase(baseUrl) ==
    LET trimmed == Trim(IF baseUrl.defined THEN baseUrl.value ELSE <<>>)
    IN IF trimmed = <<>> THEN DefaultBase ELSE trimmed

\* Lines 112-115: the URL the request goes to.
ProbeUrl(baseUrl) ==
    LET cleanBase == StripTrailingSlashes(EffectiveBase(baseUrl))
    IN IF EndsWith(cleanBase, << "/", "v1" >>)
       THEN cleanBase \o << "/", "messages" >>
       ELSE cleanBase \o << "/", "v1", "/", "messages" >>

BaseUrls ==
    { Absent(<<>>),
      Present(<<>>),
      Present(<< " " >>),
      Present(<< "https://llm.example" >>),
      Present(<< "https://llm.example", "/" >>),
      Present(<< "https://llm.example", "/", "/" >>),
      Present(<< "https://llm.example", "/", "v1" >>),
      Present(<< " ", "https://llm.example", "/", "v1", "/", " " >>) }

ApiKeys == { "sk-test", "sk-other" }

\* Line 188: timeoutMs ?? 20000
DefaultTestTimeoutMs == 20000
\* Line 243: the timeout of the background validation.
StoredValidationTimeoutMs == 10000
TimeoutArgs == { Absent(0), Present(5000) }

(***************************************************************************)
(* What the network can answer                                             *)
(***************************************************************************)
Statuses == { 200, 204, 400, 401, 403, 404, 422, 429, 500, 503 }

\* Longest response body, in fragments.
MaxBody == 2
BodyFragments ==
    { "Just a moment", "challenge-platform", "cf-", "<html>", "invalid api key" }
Bodies == SeqsUpTo(BodyFragments, MaxBody)

\* A thrown value: an Error with its message, or any other value with its
\* String() form.
JsError(isError, message, str) == [isError |-> isError, message |-> message, str |-> str]
NoJsError == JsError(FALSE, <<>>, <<>>)

\* What fetch rejects with once the signal is aborted.
AbortError ==
    JsError(TRUE, << "This operation was ", "abort", "ed" >>,
            << "AbortError", ": This operation was ", "abort", "ed" >>)

\* What fetch, or the reading of a body, can fail with otherwise.
TransportErrors ==
    { JsError(TRUE, << "fetch failed" >>, << "TypeError: fetch failed" >>),
      JsError(TRUE, << "connect ECONNREFUSED" >>, << "Error: connect ECONNREFUSED" >>),
      JsError(TRUE, << "socket connection was ", "abort", "ed by peer" >>,
              << "Error: socket connection was ", "abort", "ed by peer" >>),
      JsError(FALSE, <<>>, << "net::ERR_CONNECTION_ABORTED" >>) }

(***************************************************************************)
(* Results of the probe                                                    *)
(***************************************************************************)
Reason(kind, endpoint, raw) == [kind |-> kind, endpoint |-> endpoint, raw |-> raw]
NoReason == Reason("none", <<>>, <<>>)
\* Lines 142, 153
InvalidCredentialReason == Reason("invalidCredential", <<>>, <<>>)
\* Line 164
TimedOutReason(endpoint) == Reason("timedOut", endpoint, <<>>)
\* Line 166
UnreachableReason(endpoint, raw) == Reason("unreachable", endpoint, raw)
\* Line 238
KeyNotFoundReason == Reason("keyNotFound", <<>>, <<>>)

NoResult == [kind |-> "none", success |-> FALSE, error |-> NoReason]
Success == [kind |-> "value", success |-> TRUE, error |-> NoReason]
Failure(reason) == [kind |-> "value", success |-> FALSE, error |-> reason]
Rejection(raw) == [kind |-> "throw", success |-> FALSE, error |-> Reason("thrown", <<>>, raw)]

\* Line 162: err instanceof Error ? err.message : String(err)
MessageOf(err) == IF err.isError THEN err.message ELSE err.str

\* Line 163
IsAbortMessage(msg) == Includes(msg, "abort") \/ Includes(msg, "AbortError")

\* A catch block that rethrows what is not an abort.
CatchResultRethrows(err, baseUrl) ==
    IF IsAbortMessage(MessageOf(err))
    THEN Failure(TimedOutReason(EffectiveBase(baseUrl)))
    ELSE Rejection(MessageOf(err))

\* Lines 160-167: the result the catch block returns for a caught error.
CatchResult(err, baseUrl) ==
    LET msg == MessageOf(err)
    IN IF IsAbortMessage(msg)
       THEN Failure(TimedOutReason(EffectiveBase(baseUrl)))
       ELSE Failure(UnreachableReason(EffectiveBase(baseUrl), msg))

\* A classification that takes a 5xx for a failure.
StatusResultServerErrorFails(status) ==
    IF status = 401 THEN Failure(InvalidCredentialReason)
    ELSE IF status = 403 THEN NoResult
    ELSE IF status >= 500 THEN Failure(UnreachableReason(<<>>, <<>>))
    ELSE Success

\* Lines 141-159: what a status means: a result at once, or a look at the
\* body.
StatusResult(status) ==
    IF status = 401 THEN Failure(InvalidCredentialReason)
    ELSE IF status = 403 THEN NoResult
    ELSE Success
NeedsBody(status) == status = 403

\* A check that misses the third marker.
HasChallengeMarkerWithoutCf(body) ==
    \/ Includes(body, "Just a moment")
    \/ Includes(body, "challenge-platform")

\* Line 149
HasChallengeMarker(body) ==
    \/ Includes(body, "Just a moment")
    \/ Includes(body, "challenge-platform")
    \/ Includes(body, "cf-")

\* Lines 147-153: the result for a 403 whose body was read.
ForbiddenResult(body) ==
    IF HasChallengeMarker(body) THEN Success ELSE Failure(InvalidCredentialReason)

(***************************************************************************)
(* Stored connections and the credential store                             *)
(***************************************************************************)
Slugs == { "conn-a", "conn-b" }
AuthTypes == { "api_key", "api_key_with_endpoint", "oauth" }
StoredConnection(slug, authType, baseUrl) ==
    [slug |-> slug, authType |-> authType, baseUrl |-> baseUrl]
StoredConnections ==
    { StoredConnection(s, a, b) :
        s \in Slugs, a \in AuthTypes,
        b \in { Absent(<<>>), Present(<< "https://llm.example", "/", "v1" >>) } }
NoStoredConnection == StoredConnection("", "", Absent(<<>>))

\* getLlmApiKey(slug) of each slug: null (Undefined), empty, or a key.
Stores == [Slugs -> {Undefined, "", "sk-test"}]
EmptyStore == [s \in Slugs |-> Undefined]

NoArgs == [apiKey |-> "", baseUrl |-> Absent(<<>>), timeoutMs |-> 0]
NoRequest == [sent |-> FALSE, url |-> <<>>, apiKey |-> ""]
NoResponse == [status |-> 0, bodyRead |-> FALSE, body |-> <<>>]

\* The locals and the result of a finished call of probeConnection.
ProbeRun(a, r, t, ab, resp, err, res) ==
    [args |-> a, request |-> r, timer |-> t, aborted |-> ab, response |-> resp,
     probeErr |-> err, probeResult |-> res]

(***************************************************************************)
(* probeConnection, testConnection, validateStoredConnection               *)
(***************************************************************************)
InitProbe ==
    /\ entry = "none"
    /\ probePc = "idle"
    /\ storedConn = NoStoredConnection
    /\ store = EmptyStore
    /\ args = NoArgs
    /\ timer = "unarmed"
    /\ aborted = FALSE
    /\ request = NoRequest
    /\ response = NoResponse
    /\ probeErr = NoJsError
    /\ probeResult = NoResult
    /\ run = 1
    /\ first = ProbeRun(NoArgs, NoRequest, "unarmed", FALSE, NoResponse, NoJsError, NoResult)

\* Lines 110-136: probeConnection up to its first await: the URL is built,
\* the timer is armed, fetchFn is called with the signal.
StartProbe(apiKey, baseUrl, timeoutMs) ==
    /\ args' = [apiKey |-> apiKey, baseUrl |-> baseUrl, timeoutMs |-> timeoutMs]
    /\ timer' = "pending"
    /\ request' = [sent |-> TRUE, url |-> ProbeUrl(baseUrl), apiKey |-> apiKey]
    /\ probePc' = "fetching"

\* Lines 184-190: testConnection.
TestConnection(apiKey, baseUrl, timeoutMs) ==
    /\ probePc = "idle"
    /\ entry' = "testConnection"
    /\ StartProbe(apiKey, baseUrl,
                  IF timeoutMs.defined THEN timeoutMs.value ELSE DefaultTestTimeoutMs)
    /\ UNCHANGED <<storedConn, store, aborted, response, probeErr, probeResult, notProbe>>

\* Lines 234-237, 247-249: validateStoredConnection: a key-style connection
\* awaits the credential store, any other is valid as it is.
ValidateStoredConnection(connection, credentials) ==
    /\ probePc = "idle"
    /\ entry' = "validateStoredConnection"
    /\ storedConn' = connection
    /\ store' = credentials
    /\ IF connection.authType \in {"api_key", "api_key_with_endpoint"}
       THEN /\ probePc' = "readingKey"
            /\ UNCHANGED probeResult
       ELSE /\ probePc' = "done"
            /\ probeResult' = Success
    /\ UNCHANGED <<args, timer, aborted, request, response, probeErr, notProbe>>

\* The test that lets the empty string pass as a key.
HasStoredKeyUnlessNull(apiKey) == apiKey # Undefined

\* Line 240: if (!apiKey)
HasStoredKey(apiKey) == Truthy(apiKey)

\* Lines 237-244: the key arrived: without one the validation fails at once,
\* with one the probe starts.
StoredKeyRead ==
    LET apiKey == store[storedConn.slug]
    IN /\ probePc = "readingKey"
       /\ IF ~HasStoredKey(apiKey)
          THEN /\ probePc' = "done"
               /\ probeResult' = Failure(KeyNotFoundReason)
               /\ UNCHANGED <<args, timer, request>>
          ELSE /\ StartProbe(apiKey, storedConn.baseUrl, StoredValidationTimeoutMs)
               /\ UNCHANGED probeResult
       /\ UNCHANGED <<entry, storedConn, store, aborted, response, probeErr, notProbe>>

\* Line 118: the timer fires and aborts the request.
TimerFires ==
    /\ timer = "pending"
    /\ timer' = "fired"
    /\ aborted' = TRUE
    /\ UNCHANGED <<entry, probePc, storedConn, store, args, request, response,
                   probeErr, probeResult, notProbe>>

\* The catch block without its clearTimeout.
CatchProbeErrorKeepsTimer(err) ==
    /\ timer' = timer
    /\ probeErr' = err
    /\ probeResult' = CatchResult(err, args.baseUrl)
    /\ probePc' = "done"

\* Lines 160-167: the catch block: the timer is cleared and the error becomes
\* a result.
CatchProbeError(err) ==
    /\ timer' = IF timer = "pending" THEN "cleared" ELSE timer
    /\ probeErr' = err
    /\ probeResult' = CatchResult(err, args.baseUrl)
    /\ probePc' = "done"

\* Lines 123-136, 160: the request fails before the timer fired (fetchFn
\* throws or its promise rejects).
FetchFails(err) ==
    /\ probePc = "fetching"
    /\ ~aborted
    /\ CatchProbeError(err)
    /\ UNCHANGED <<entry, storedConn, store, args, aborted, request, response, notProbe>>

\* Lines 123-136, 160: the aborted request rejects.
FetchAborted ==
    /\ probePc = "fetching"
    /\ aborted
    /\ CatchProbeError(AbortError)
    /\ UNCHANGED <<entry, storedConn, store, args, aborted, request, response, notProbe>>

\* Lines 136-159: a response arrives: the timer is cleared, and the status
\* decides the result, or that the body is read first.
ResponseArrives(status) ==
    /\ probePc = "fetching"
    /\ ~aborted
    /\ timer' = "cleared"
    /\ response' = [response EXCEPT !.status = status]
    /\ IF NeedsBody(status)
       THEN /\ probePc' = "readingBody"
            /\ UNCHANGED probeResult
       ELSE /\ probePc' = "done"
            /\ probeResult' = StatusResult(status)
    /\ UNCHANGED <<entry, storedConn, store, args, aborted, request, probeErr, notProbe>>

\* Lines 147-153: the body of the 403 response is read.
BodyArrives(body) ==
    /\ probePc = "readingBody"
    /\ response' = [response EXCEPT !.bodyRead = TRUE, !.body = body]
    /\ probeResult' = ForbiddenResult(body)
    /\ probePc' = "done"
    /\ UNCHANGED <<entry, storedConn, store, args, timer, aborted, request, probeErr,
                   notProbe>>

\* Lines 147, 160: reading the body fails.
BodyFails(err) ==
    /\ probePc = "readingBody"
    /\ CatchProbeError(err)
    /\ UNCHANGED <<entry, storedConn, store, args, aborted, request, response, notProbe>>

\* Lines 105-118: probeConnection is called again with the arguments of the
\* call that is over.  The controller, the timer and the catch variable are
\* locals of the call, so the second call has its own.
ProbeAgain ==
    /\ run = 1
    /\ probePc = "done"
    /\ request.sent
    /\ run' = 2
    /\ first' = ProbeRun(args, request, timer, aborted, response, probeErr, probeResult)
    /\ aborted' = FALSE
    /\ response' = NoResponse
    /\ probeErr' = NoJsError
    /\ probeResult' = NoResult
    /\ StartProbe(args.apiKey, args.baseUrl, args.timeoutMs)
    /\ UNCHANGED <<entry, storedConn, store, cvars, uvars, lvars>>

\* The server and the network behave in the second call as they did in the
\* first: as slow, with the same failure, the same status and the same body.
SameTiming == run = 2 => first.aborted
SameFailure(err) ==
    run = 2 => ~first.aborted /\ first.response.status = 0 /\ first.probeErr = err
SameStatus(status) == run = 2 => ~first.aborted /\ first.response.status = status
SameBody(body) == run = 2 => first.response.bodyRead /\ first.response.body = body
SameBodyFailure(err) ==
    run = 2 => first.response.status # 0 /\ ~first.response.bodyRead /\ first.probeErr = err

InitCallsIdle == InitCalls /\ env0 = Unset

(***************************************************************************)
(* The providers settings page: its connections and the API setup overlay. *)
(***************************************************************************)
\* null, as the value of editingConnectionSlug.
Null == "<null>"

\* An LlmConnectionWithStatus, with the fields the handlers read.  models is
\* the list of the model ids (of strings and of descriptors alike).
SettingsConnection(slug, name, providerType, authType, piAuthProvider, baseUrl, models, defaultModel) ==
    [slug |-> slug, name |-> name, providerType |-> providerType,
     authType |-> authType, piAuthProvider |-> piAuthProvider, baseUrl |-> baseUrl,
     models |-> models, defaultModel |-> defaultModel]

SettingsConnections ==
    { SettingsConnection("pi-custom", "My endpoint", "pi", "api_key_with_endpoint",
                         Undefined, "https://llm.example", << "model-a", "model-b" >>,
                         "model-a"),
      SettingsConnection("anthropic-api", "Anthropic", "anthropic", "api_key",
                         Undefined, Undefined, <<>>, "claude-sonnet"),
      SettingsConnection("pi-compat", "Compat", "pi_compat", "api_key",
                         "openrouter", "https://router.example", <<>>, Undefined),
      SettingsConnection("copilot", "Copilot", "pi", "oauth",
                         "github-copilot", Undefined, <<>>, Undefined),
      SettingsConnection("chatgpt", "ChatGPT", "pi", "oauth",
                         "openai-codex", Undefined, <<>>, Undefined),
      SettingsConnection("claude-max", "Claude Max", "anthropic", "oauth",
                         Undefined, Undefined, <<>>, Undefined),
      SettingsConnection("bedrock", "Bedrock", "bedrock", "api_key",
                         Undefined, Undefined, <<>>, Undefined),
      SettingsConnection("vertex", "Vertex", "vertex", "oauth",
                         Undefined, Undefined, <<>>, Undefined),
      SettingsConnection("compat", "Compatible", "anthropic_compat", "api_key_with_endpoint",
                         Undefined, "https://compat.example", << "model-c" >>, Undefined) }

\* The key the credential store holds for a connection.
RawKeyOf(slug) ==
    CASE slug = "pi-custom" -> "sk-live-pi-custom"
      [] slug = "anthropic-api" -> "sk-live-anthropic-api"
      [] OTHER -> "sk-live-pi-compat"
RawKeys == { RawKeyOf(c.slug) : c \in SettingsConnections }
\* How getLlmConnectionApiKey(slug) settles: with the key, with null, or
\* rejected.
KeyReads == { "key", "null", "throws" }

\* Lines 64-68: getApiKeyMethodForConnection (providerType stands for
\* conn.providerType || conn.type: the connections here have a providerType).
getApiKeyMethodForConnection(connection) ==
    IF connection.providerType = "pi" \/ connection.providerType = "pi_compat"
    THEN "pi_api_key"
    ELSE "anthropic_api_key"

\* Lines 442-445: the OAuth method handleReauthenticate starts.
ReauthMethod(connection) ==
    IF connection.providerType = "pi"
    THEN (IF connection.piAuthProvider = "github-copilot"
          THEN "pi_copilot_oauth" ELSE "pi_chatgpt_oauth")
    ELSE "claude_oauth"

\* Lines 346-352: editInitialValues: undefined, or the five values.
Seed(apiKey, name, baseUrl, connectionDefaultModel, activePreset) ==
    [defined |-> TRUE, apiKey |-> apiKey, name |-> name, baseUrl |-> baseUrl,
     connectionDefaultModel |-> connectionDefaultModel, activePreset |-> activePreset]
NoSeed ==
    [defined |-> FALSE, apiKey |-> Undefined, name |-> Undefined, baseUrl |-> Undefined,
     connectionDefaultModel |-> <<>>, activePreset |-> Undefined]

\* Lines 457-459: the model string: the ids joined, else the default model,
\* else the empty string (a string is the sequence of its fragments).
ModelStr(connection) ==
    IF connection.models # <<>> THEN connection.models
    ELSE IF Truthy(connection.defaultModel) THEN << connection.defaultModel >>
    ELSE <<>>

\* Lines 461-467: the values handleEdit seeds the credentials step with.
EditSeed(connection, apiKey) ==
    Seed(apiKey, connection.name, connection.baseUrl, ModelStr(connection),
         IF Truthy(connection.piAuthProvider) THEN connection.piAuthProvider ELSE Undefined)

NoPendingEdit == [active |-> FALSE, slug |-> Null, hookSlug |-> Null]
NoFlowStart == [kind |-> "none", method |-> "none", slug |-> Null, editingSlug |-> Null]

\* useOnboarding: its state after reset(), after jumpToCredentials(method) and
\* after handleStartOAuth(method).
OnboardingState(step, method, status) == [step |-> step, method |-> method, status |-> status]
OnboardingReset == OnboardingState("provider-select", "none", "idle")
JumpToCredentials(method) == OnboardingState("credentials", method, "idle")
HandleStartOAuth(method) == OnboardingState("credentials", method, "validating")

\* Props and view of the credentials step while it is not rendered.
NoProps ==
    [component |-> "none", apiSetupMethod |-> "none", status |-> "idle", errorMessage |-> Undefined,
     isWaitingForCode |-> FALSE, editInitialValues |-> NoSeed]
NoView ==
    [variant |-> "none", backDisabled |-> FALSE, backAction |-> "none",
     continueDisabled |-> FALSE, continueLoading |-> FALSE, continueAction |-> "none",
     errorBox |-> FALSE, errorText |-> Undefined, successBox |-> FALSE,
     child |-> "none", childStatus |-> "idle", childErrorMessage |-> Undefined,
     childInitialValues |-> NoSeed]

InitPage ==
    /\ showApiSetup = FALSE
    /\ editingConnectionSlug = Null
    /\ isDirectEdit = FALSE
    /\ editInitialValues = NoSeed
    /\ pendingEdit = NoPendingEdit
    /\ onboarding = OnboardingReset
    /\ flowStart = NoFlowStart

InitStep ==
    /\ stepProps = NoProps
    /\ stepView = NoView

\* Line 408: no slug has a validation state yet, which line 512 reads as
\* 'idle'.
ValidationState(state, error) == [state |-> state, error |-> error]
Idle == ValidationState("idle", Undefined)
ValidatedSlugs == { "pi-custom", "copilot" }

InitValidation ==
    /\ validationStates = [s \in ValidatedSlugs |-> Idle]
    /\ testsInFlight = [s \in ValidatedSlugs |-> 0]
    /\ resetTimers = [s \in ValidatedSlugs |-> 0]

\* The list before the application has one: no connection, nothing selected.
AutoSelectState(due, before) == [due |-> due, before |-> before]
InitNoList ==
    /\ llmConnections = <<>>
    /\ savedConnections = {}
    /\ selectedSlug = Null
    /\ deletesInFlight = {}
    /\ autoSelect = AutoSelectState(FALSE, Null)

InitUi == InitPage /\ InitStep /\ InitValidation /\ InitNoList

\* Lines 355-359: openApiSetup(connectionSlug), as the value the slug state
\* gets.
OpenSlug(connectionSlug) == IF Truthy(connectionSlug) THEN connectionSlug ELSE Null

\* The hook object a handler holds is the one of the render that created the
\* handler: it was given editingSlug = editingConnectionSlug of that render
\* (line 384).  A state setter the handler calls takes effect with the next
\* render.
HookOfClosure == editingConnectionSlug

\* Lines 450-454: Edit is pressed on a key-style connection (lines 288-302
\* show the button for these); the handler suspends at the read of the key.
HandleEdit(connection) ==
    /\ ~showApiSetup
    /\ ~pendingEdit.active
    /\ connection.authType # "oauth"
    /\ pendingEdit' = [active |-> TRUE, slug |-> connection.slug, hookSlug |-> HookOfClosure]
    /\ UNCHANGED <<showApiSetup, editingConnectionSlug, isDirectEdit, editInitialValues,
                   onboarding, flowStart, svars, vvars, notUi>>

\* Lines 453-471: the read settled: the values are seeded, the overlay opens
\* and the hook of the handler's closure jumps to the credentials step.
HandleEditKeyRead(connection, read) ==
    LET apiKey == IF read = "key" THEN RawKeyOf(connection.slug) ELSE Undefined
        method == getApiKeyMethodForConnection(connection)
    IN /\ pendingEdit.active
       /\ pendingEdit.slug = connection.slug
       /\ editInitialValues' = EditSeed(connection, apiKey)
       /\ editingConnectionSlug' = OpenSlug(connection.slug)
       /\ showApiSetup' = TRUE
       /\ isDirectEdit' = TRUE
       /\ onboarding' = JumpToCredentials(method)
       /\ flowStart' = [kind |-> "jumpToCredentials", method |-> method,
                        slug |-> connection.slug, editingSlug |-> pendingEdit.hookSlug]
       /\ pendingEdit' = NoPendingEdit
       /\ UNCHANGED <<svars, vvars, notUi>>

\* Lines 439-448: Re-authenticate is pressed on an OAuth connection (lines
\* 288-292 show the button for these).
HandleReauthenticate(connection) ==
    /\ ~showApiSetup
    /\ editingConnectionSlug' = OpenSlug(connection.slug)
    /\ showApiSetup' = TRUE
    /\ IF connection.authType = "oauth"
       THEN /\ onboarding' = HandleStartOAuth(ReauthMethod(connection))
            /\ flowStart' = [kind |-> "handleStartOAuth", method |-> ReauthMethod(connection),
                             slug |-> connection.slug, editingSlug |-> HookOfClosure]
       ELSE /\ onboarding' = OnboardingReset
            /\ UNCHANGED flowStart
    /\ UNCHANGED <<isDirectEdit, editInitialValues, pendingEdit, svars, vvars, notUi>>

\* Lines 361-365, 375-383: onComplete and onDismiss of the hook: the overlay
\* closes and the hook is reset.
OnCompleteOrDismiss ==
    /\ showApiSetup
    /\ showApiSetup' = FALSE
    /\ editingConnectionSlug' = Null
    /\ onboarding' = OnboardingReset
    /\ UNCHANGED <<isDirectEdit, editInitialValues, pendingEdit, flowStart, svars, vvars, notUi>>

\* Lines 388-401: handleApiSetupFinish and handleCloseApiSetup: as above, and
\* the edit state is dropped.
HandleCloseApiSetup ==
    /\ showApiSetup
    /\ showApiSetup' = FALSE
    /\ editingConnectionSlug' = Null
    /\ onboarding' = OnboardingReset
    /\ isDirectEdit' = FALSE
    /\ editInitialValues' = NoSeed
    /\ UNCHANGED <<pendingEdit, flowStart, svars, vvars, notUi>>

(***************************************************************************)
(* The list of connections: selection and deletion                         *)
(***************************************************************************)
\* The connections a list can hold.
MaxConnections == 3
ListSlugs == { "pi-custom", "anthropic-api", "copilot", "claude-max" }

\* The lists without a repeated slug.
InitialLists ==
    { l \in SeqsUpTo(ListSlugs, MaxConnections) :
        \A i, j \in 1..Len(l) : l[i] = l[j] => i = j }

SlugsOf(list) == { list[i] : i \in 1..Len(list) }

\* The page is mounted on a list; the atom starts as null (providers.ts, line
\* 11) and the effect runs after the first render.
InitList ==
    /\ llmConnections \in InitialLists
    /\ savedConnections = SlugsOf(llmConnections)
    /\ selectedSlug = Null
    /\ deletesInFlight = {}
    /\ autoSelect = AutoSelectState(TRUE, Null)

\* The effect that selects the first connection of every list that is not
\* empty.
AutoSelectAlwaysFirst(list, selected) ==
    IF Len(list) = 0 THEN Null ELSE list[1]

\* icons.tsx, lines 193-200: the selection the effect leaves.
AutoSelect(list, selected) ==
    IF Len(list) = 0 THEN Null
    ELSE IF selected = Null \/ selected = "" \/ selected \notin SlugsOf(list)
         THEN list[1]
         ELSE selected

\* icons.tsx, lines 192-201: the effect runs, once for each change of the
\* list or of the selection; a selection it changes makes it run again.
RunAutoSelect ==
    /\ autoSelect.due
    /\ selectedSlug' = AutoSelect(llmConnections, selectedSlug)
    /\ autoSelect' = [autoSelect EXCEPT !.due = (selectedSlug' # selectedSlug)]
    /\ UNCHANGED <<llmConnections, savedConnections, deletesInFlight, notList>>

\* icons.tsx, line 260: a connection of the list is clicked.
SelectConnection(slug) ==
    /\ ~autoSelect.due
    /\ slug \in SlugsOf(llmConnections)
    /\ selectedSlug' = slug
    /\ autoSelect' = AutoSelectState(selectedSlug' # selectedSlug, slug)
    /\ UNCHANGED <<llmConnections, savedConnections, deletesInFlight, notList>>

\* ProvidersSettingsPage.tsx, line 519, with line 313: the Delete button of
\* the detail panel is disabled when the list holds one connection.
isLastConnection == Len(llmConnections) <= 1

\* ProvidersSettingsPage.tsx, lines 474-477: Delete is pressed in the detail
\* panel, which shows the selected connection; the handler awaits
\* deleteLlmConnection(slug).
HandleDelete(slug) ==
    /\ ~autoSelect.due
    /\ selectedSlug = slug
    /\ slug \in SlugsOf(llmConnections)
    /\ ~isLastConnection
    /\ slug \notin deletesInFlight
    /\ deletesInFlight' = deletesInFlight \cup {slug}
    /\ UNCHANGED <<llmConnections, savedConnections, selectedSlug, autoSelect, notList>>

\* How deleteLlmConnection(slug) settles.
DeleteResults == { "success", "failure", "throws" }

\* The main process removes the connection it is asked to delete.
DeleteLlmConnection(saved, slug) == saved \ {slug}

\* refreshLlmConnections: the list becomes the connections the main process
\* holds, in their order.
RefreshedList(list, saved) ==
    LET IsSaved(slug) == slug \in saved
    IN SelectSeq(list, IsSaved)

\* ProvidersSettingsPage.tsx, lines 477-481: the call settled; after a
\* success the list is refreshed.
DeleteSettles(slug, result) ==
    /\ ~autoSelect.due
    /\ slug \in deletesInFlight
    /\ deletesInFlight' = deletesInFlight \ {slug}
    /\ IF result = "success"
       THEN /\ savedConnections' = DeleteLlmConnection(savedConnections, slug)
            /\ llmConnections' = RefreshedList(llmConnections, savedConnections')
            /\ autoSelect' = AutoSelectState(llmConnections' # llmConnections, selectedSlug)
       ELSE UNCHANGED <<savedConnections, llmConnections, autoSelect>>
    /\ UNCHANGED <<selectedSlug, notList>>

(***************************************************************************)
(* handleValidate                                                          *)
(***************************************************************************)
\* The calls and the timers of one slug the model follows at a time.
MaxTests == 2
MaxResetTimers == 2

\* How testLlmConnection(slug) settles: {success: true}, {success: false}
\* with or without an error text, or rejected.
TestResult(kind, error) == [kind |-> kind, error |-> error]
TestResults ==
    { TestResult("success", Undefined),
      TestResult("failure", "401 Unauthorized"),
      TestResult("failure", Undefined),
      TestResult("throws", Undefined) }

\* Lines 490, 493, 496: the validation state a settled test leaves.
SettledValidationState(result) ==
    IF result.kind = "success" THEN ValidationState("success", Undefined)
    ELSE IF result.kind = "failure" THEN ValidationState("error", result.error)
    ELSE ValidationState("error", "Validation failed")

\* Lines 484-487, with line 262: Validate is pressed for a slug whose button
\* is enabled; the state becomes 'validating' and testLlmConnection is
\* awaited.
HandleValidate(slug) ==
    /\ validationStates[slug].state # "validating"
    /\ testsInFlight[slug] < MaxTests
    /\ validationStates' = [validationStates EXCEPT ![slug] = ValidationState("validating", Undefined)]
    /\ testsInFlight' = [testsInFlight EXCEPT ![slug] = @ + 1]
    /\ UNCHANGED <<resetTimers, gvars, svars, notUi>>

\* The handler whose catch block arms no timer.
TestSettlesCatchArmsNoTimer(slug, result) ==
    /\ testsInFlight[slug] > 0
    /\ resetTimers[slug] < MaxResetTimers
    /\ validationStates' = [validationStates EXCEPT ![slug] = SettledValidationState(result)]
    /\ testsInFlight' = [testsInFlight EXCEPT ![slug] = @ - 1]
    /\ resetTimers' = [resetTimers EXCEPT ![slug] = IF result.kind = "throws" THEN @ ELSE @ + 1]
    /\ UNCHANGED <<gvars, svars, notUi>>

\* Lines 488-499: the test settled: the state becomes 'success' or 'error'
\* and a timer is armed that will set it to 'idle'.
TestSettles(slug, result) ==
    /\ testsInFlight[slug] > 0
    /\ resetTimers[slug] < MaxResetTimers
    /\ validationStates' = [validationStates EXCEPT ![slug] = SettledValidationState(result)]
    /\ testsInFlight' = [testsInFlight EXCEPT ![slug] = @ - 1]
    /\ resetTimers' = [resetTimers EXCEPT ![slug] = @ + 1]
    /\ UNCHANGED <<gvars, svars, notUi>>

\* Lines 491, 494, 497: a timer fires and sets the state of its slug to
\* 'idle'.
ResetTimerFires(slug) ==
    /\ resetTimers[slug] > 0
    /\ validationStates' = [validationStates EXCEPT ![slug] = Idle]
    /\ resetTimers' = [resetTimers EXCEPT ![slug] = @ - 1]
    /\ UNCHANGED <<testsInFlight, gvars, svars, notUi>>

(***************************************************************************)
(* CredentialsStep: what it renders of its props.                          *)
(***************************************************************************)
Methods ==
    { "anthropic_api_key", "claude_oauth", "pi_chatgpt_oauth", "pi_copilot_oauth",
      "pi_api_key" }
CredentialStatuses == { "idle", "validating", "success", "error" }
ErrorMessages == { Undefined, "", "Invalid API key" }

\* Lines 42-58: apiSetupMethodToConnectionTypes
apiSetupMethodToConnectionTypes(method) ==
    CASE method = "claude_oauth" -> [providerType |-> "anthropic", authType |-> "oauth"]
      [] method = "anthropic_api_key" -> [providerType |-> "anthropic", authType |-> "api_key"]
      [] method = "pi_chatgpt_oauth" -> [providerType |-> "pi", authType |-> "oauth"]
      [] method = "pi_copilot_oauth" -> [providerType |-> "pi", authType |-> "oauth"]
      [] method = "pi_api_key" -> [providerType |-> "pi", authType |-> "api_key"]

CredentialsStepProps(apiSetupMethod, status, errorMessage, isWaitingForCode, seed) ==
    [component |-> "CredentialsStep", apiSetupMethod |-> apiSetupMethod, status |-> status,
     errorMessage |-> errorMessage, isWaitingForCode |-> isWaitingForCode,
     editInitialValues |-> seed]

SeedsOfStep ==
    { NoSeed } \cup
    { EditSeed(c, RawKeyOf(c.slug)) : c \in { x \in SettingsConnections : x.slug = "pi-custom" } }

PropsOfStep ==
    { CredentialsStepProps(m, st, e, w, sd) :
        m \in Methods, st \in CredentialStatuses, e \in ErrorMessages,
        w \in BOOLEAN, sd \in SeedsOfStep }

\* Lines 386, 450: status === 'error' && errorMessage && (the error box)
ShowsOwnError(status, errorMessage) == status = "error" /\ Truthy(errorMessage)

\* Lines 362-399, 402-463: the ChatGPT and the Copilot variants draw the
\* buttons, the error box and the success box themselves.
OwnOAuthView(variant, p) ==
    [variant |-> variant,
     backDisabled |-> p.status = "validating", backAction |-> "onBack",
     continueDisabled |-> FALSE, continueLoading |-> p.status = "validating",
     continueAction |-> "onStartOAuth",
     errorBox |-> ShowsOwnError(p.status, p.errorMessage),
     errorText |-> IF ShowsOwnError(p.status, p.errorMessage) THEN p.errorMessage ELSE Undefined,
     successBox |-> p.status = "success",
     child |-> "none", childStatus |-> "idle", childErrorMessage |-> Undefined,
     childInitialValues |-> NoSeed]

\* The Claude variants with a left button that is never disabled.
ClaudeOAuthViewBackAlwaysEnabled(p) ==
    [variant |-> IF p.isWaitingForCode THEN "claude-auth-code" ELSE "claude",
     backDisabled |-> FALSE,
     backAction |-> IF p.isWaitingForCode THEN "onCancelOAuth" ELSE "onBack",
     continueDisabled |-> FALSE, continueLoading |-> p.status = "validating",
     continueAction |-> IF p.isWaitingForCode THEN "submit" ELSE "onStartOAuth",
     errorBox |-> FALSE, errorText |-> Undefined, successBox |-> FALSE,
     child |-> "OAuthConnect", childStatus |-> p.status,
     childErrorMessage |-> p.errorMessage, childInitialValues |-> NoSeed]

\* Lines 466-527: the Claude variants hand status and errorMessage to
\* OAuthConnect; while the code is awaited the left button cancels.
ClaudeOAuthView(p) ==
    [variant |-> IF p.isWaitingForCode THEN "claude-auth-code" ELSE "claude",
     backDisabled |-> p.status = "validating",
     backAction |-> IF p.isWaitingForCode THEN "onCancelOAuth" ELSE "onBack",
     continueDisabled |-> FALSE, continueLoading |-> p.status = "validating",
     continueAction |-> IF p.isWaitingForCode THEN "submit" ELSE "onStartOAuth",
     errorBox |-> FALSE, errorText |-> Undefined, successBox |-> FALSE,
     child |-> "OAuthConnect", childStatus |-> p.status,
     childErrorMessage |-> p.errorMessage, childInitialValues |-> NoSeed]

\* Lines 529-561: the API key variant hands status, errorMessage and the
\* seed to ApiKeyInput.
ApiKeyView(p) ==
    [variant |-> "api-key",
     backDisabled |-> p.status = "validating", backAction |-> "onBack",
     continueDisabled |-> FALSE, continueLoading |-> p.status = "validating",
     continueAction |-> "submit",
     errorBox |-> FALSE, errorText |-> Undefined, successBox |-> FALSE,
     child |-> "ApiKeyInput", childStatus |-> p.status,
     childErrorMessage |-> p.errorMessage, childInitialValues |-> p.editInitialValues]

\* Lines 316-562: CredentialsStep
CredentialsStepView(p) ==
    IF p.apiSetupMethod = "pi_chatgpt_oauth" THEN OwnOAuthView("chatgpt", p)
    ELSE IF p.apiSetupMethod = "pi_copilot_oauth" THEN OwnOAuthView("copilot", p)
    ELSE IF p.apiSetupMethod = "claude_oauth" THEN ClaudeOAuthView(p)
    ELSE ApiKeyView(p)

\* ProviderSelectStep.tsx, lines 131-136: the props of LocalModelStep that
\* decide what it shows (status may be left out).
LocalModelStepProps(status, errorMessage) ==
    [component |-> "LocalModelStep", apiSetupMethod |-> "none", status |-> status,
     errorMessage |-> errorMessage, isWaitingForCode |-> FALSE, editInitialValues |-> NoSeed]
PropsOfLocalModelStep ==
    { LocalModelStepProps(st, e) :
        st \in CredentialStatuses \cup {Undefined}, e \in ErrorMessages }

\* CompletionStep.tsx, lines 7-11
CompletionStepProps(status) ==
    [component |-> "CompletionStep", apiSetupMethod |-> "none", status |-> status,
     errorMessage |-> Undefined, isWaitingForCode |-> FALSE, editInitialValues |-> NoSeed]
PropsOfCompletionStep == { CompletionStepProps(st) : st \in {"saving", "complete"} }

\* ProviderSelectStep.tsx, lines 145-260: LocalModelStep (status = 'idle' is
\* the default of the parameter).
LocalModelStepView(p) ==
    LET status == IF p.status = Undefined THEN "idle" ELSE p.status
    IN [variant |-> "local-model",
        backDisabled |-> status = "validating", backAction |-> "onBack",
        continueDisabled |-> FALSE, continueLoading |-> status = "validating",
        continueAction |-> "submit",
        errorBox |-> (status = "error" /\ Truthy(p.errorMessage)),
        errorText |-> IF status = "error" /\ Truthy(p.errorMessage)
                      THEN p.errorMessage ELSE Undefined,
        successBox |-> FALSE,
        child |-> "none", childStatus |-> "idle", childErrorMessage |-> Undefined,
        childInitialValues |-> NoSeed]

\* CompletionStep.tsx, lines 20-56: the only action is the finish button, and
\* it is there in status 'complete'.
CompletionStepView(p) ==
    [variant |-> IF p.status = "saving" THEN "saving" ELSE "done",
     backDisabled |-> FALSE, backAction |-> "none",
     continueDisabled |-> FALSE, continueLoading |-> FALSE,
     continueAction |-> IF p.status = "complete" THEN "onFinish" ELSE "none",
     errorBox |-> FALSE, errorText |-> Undefined, successBox |-> FALSE,
     child |-> "none", childStatus |-> "idle", childErrorMessage |-> Undefined,
     childInitialValues |-> NoSeed]

\* The local-model step is rendered with its props.
RenderLocalModelStep ==
    /\ stepProps.component = "LocalModelStep"
    /\ stepView = NoView
    /\ stepView' = LocalModelStepView(stepProps)
    /\ UNCHANGED <<stepProps, gvars, vvars, notUi>>

\* The completion step is rendered with its props.
RenderCompletionStep ==
    /\ stepProps.component = "CompletionStep"
    /\ stepView = NoView
    /\ stepView' = CompletionStepView(stepProps)
    /\ UNCHANGED <<stepProps, gvars, vvars, notUi>>

\* The step is rendered with its props.
RenderCredentialsStep ==
    /\ stepProps.component = "CredentialsStep"
    /\ stepView = NoView
    /\ stepView' = CredentialsStepView(stepProps)
    /\ UNCHANGED <<stepProps, gvars, vvars, notUi>>

(***************************************************************************)
(* Concurrent calls of fetchCopilotModels, each with its own token.        *)
(***************************************************************************)
Init == InitCalls /\ InitProbe /\ InitUi

Next ==
    \E c \in Calls :
        \/ CallFetchCopilotModels(c, TokenOf(c))
        \/ ImportFails(c)
        \/ WriteTokenAndStart(c)
        \/ WriteTokenAndConstructThrows(c)
        \/ StartResolves(c)
        \/ StartRejects(c)
        \/ StartTimerFires(c)
        \/ \E l \in ConcurrentListings : ListResolves(c, l)
        \/ ListRejects(c)
        \/ ListTimerFires(c)
        \/ \E how \in StopOutcomes : StopSettlesAfterListing(c, how)
        \/ \E how \in StopOutcomes : StopSettlesAfterError(c, how)

Spec == Init /\ [][Next]_vars

(***************************************************************************)
(* One call of fetchModels, over every shape of connection.                *)
(***************************************************************************)
InitResolver == InitCalls /\ InitProbe /\ InitUi

NextResolver ==
    \/ \E connection \in Connections, token \in OAuthTokens : FetchModels(1, connection, token)
    \/ ImportFails(1)
    \/ WriteTokenAndStart(1)
    \/ WriteTokenAndConstructThrows(1)
    \/ StartResolves(1)
    \/ StartRejects(1)
    \/ StartTimerFires(1)
    \/ \E l \in RemoteListings : ListResolves(1, l)
    \/ ListRejects(1)
    \/ ListTimerFires(1)
    \/ \E how \in StopOutcomes : StopSettlesAfterListing(1, how)
    \/ \E how \in StopOutcomes : StopSettlesAfterError(1, how)

SpecResolver == InitResolver /\ [][NextResolver]_vars

\* The same call under the scheduling the code can count on: a step that is
\* not the settling of client.stop() is taken when it stays possible (the
\* import settles, and each race is decided at the latest by its timer).
\* Nothing bounds client.stop(): line 52 and line 56 await it bare.
NextResolverBounded ==
    \/ \E connection \in Connections, token \in OAuthTokens : FetchModels(1, connection, token)
    \/ ImportFails(1)
    \/ WriteTokenAndStart(1)
    \/ WriteTokenAndConstructThrows(1)
    \/ StartResolves(1)
    \/ StartRejects(1)
    \/ StartTimerFires(1)
    \/ \E l \in RemoteListings : ListResolves(1, l)
    \/ ListRejects(1)
    \/ ListTimerFires(1)

SpecResolverFair == SpecResolver /\ WF_vars(NextResolverBounded)

(***************************************************************************)
(* The probe, through testConnection and validateStoredConnection.         *)
(***************************************************************************)
InitProbeSpec == InitCallsIdle /\ InitProbe /\ InitUi

NextProbe ==
    \/ \E k \in ApiKeys, b \in BaseUrls, ms \in TimeoutArgs : TestConnection(k, b, ms)
    \/ \E connection \in StoredConnections, credentials \in Stores :
            ValidateStoredConnection(connection, credentials)
    \/ StoredKeyRead
    \/ TimerFires
    \/ \E err \in TransportErrors : FetchFails(err)
    \/ FetchAborted
    \/ \E status \in Statuses : ResponseArrives(status)
    \/ \E body \in Bodies : BodyArrives(body)
    \/ \E err \in TransportErrors : BodyFails(err)

SpecProbe == InitProbeSpec /\ [][NextProbe]_vars

(***************************************************************************)
(* The probe called twice with one input, against one server behaviour.    *)
(***************************************************************************)
InitProbeTwice == InitCallsIdle /\ InitProbe /\ InitUi

NextProbeTwice ==
    \/ \E k \in ApiKeys, b \in BaseUrls, ms \in TimeoutArgs : TestConnection(k, b, ms)
    \/ \E connection \in StoredConnections, credentials \in Stores :
            ValidateStoredConnection(connection, credentials)
    \/ StoredKeyRead
    \/ SameTiming /\ TimerFires
    \/ \E err \in TransportErrors : SameFailure(err) /\ FetchFails(err)
    \/ FetchAborted
    \/ \E status \in Statuses : SameStatus(status) /\ ResponseArrives(status)
    \/ \E body \in Bodies : SameBody(body) /\ BodyArrives(body)
    \/ \E err \in TransportErrors : SameBodyFailure(err) /\ BodyFails(err)
    \/ ProbeAgain

SpecProbeTwice == InitProbeTwice /\ [][NextProbeTwice]_vars

(***************************************************************************)
(* The settings page: Edit and Re-authenticate on its connections.         *)
(***************************************************************************)
InitSettings == InitCallsIdle /\ InitProbe /\ InitUi

NextSettings ==
    \/ \E connection \in SettingsConnections : HandleEdit(connection)
    \/ \E connection \in SettingsConnections, read \in KeyReads :
            HandleEditKeyRead(connection, read)
    \/ \E connection \in { c \in SettingsConnections : c.authType = "oauth" } :
            HandleReauthenticate(connection)
    \/ OnCompleteOrDismiss
    \/ HandleCloseApiSetup

SpecSettings == InitSettings /\ [][NextSettings]_vars

(***************************************************************************)
(* The list of connections: auto-select, selection and deletion.           *)
(***************************************************************************)
InitConnections ==
    /\ InitCallsIdle /\ InitProbe /\ InitPage /\ InitStep /\ InitValidation
    /\ InitList

NextConnections ==
    \/ RunAutoSelect
    \/ \E slug \in ListSlugs : SelectConnection(slug)
    \/ \E slug \in ListSlugs : HandleDelete(slug)
    \/ \E slug \in ListSlugs, result \in DeleteResults : DeleteSettles(slug, result)

SpecConnections == InitConnections /\ [][NextConnections]_vars

(***************************************************************************)
(* The validations of the settings page.                                   *)
(***************************************************************************)
InitValidationSpec == InitCallsIdle /\ InitProbe /\ InitUi

NextValidation ==
    \E slug \in ValidatedSlugs :
        \/ HandleValidate(slug)
        \/ \E result \in TestResults : TestSettles(slug, result)
        \/ ResetTimerFires(slug)

SpecValidation == InitValidationSpec /\ [][NextValidation]_vars

\* A timer that is armed fires.
SpecValidationFair ==
    SpecValidation /\ \A slug \in ValidatedSlugs : WF_vars(ResetTimerFires(slug))

(***************************************************************************)
(* CredentialsStep over every combination of its props.                    *)
(***************************************************************************)
InitCredentialsStep ==
    /\ InitCallsIdle /\ InitProbe /\ InitPage /\ InitValidation /\ InitNoList
    /\ stepProps \in PropsOfStep \cup PropsOfLocalModelStep \cup PropsOfCompletionStep
    /\ stepView = NoView

NextCredentialsStep ==
    \/ RenderCredentialsStep
    \/ RenderLocalModelStep
    \/ RenderCompletionStep

SpecCredentialsStep == InitCredentialsStep /\ [][NextCredentialsStep]_vars

(***************************************************************************)
(* Properties of fetchCopilotModels and fetchModels                        *)
(***************************************************************************)
\* The call wrote its token to the environment.
WroteToken(c) == prevToken[c] # Undefined

\* C1: once a single call of fetchCopilotModels that wrote its token to the
\* environment has ended, however it ended, COPILOT_GITHUB_TOKEN has the value
\* it had before the call (and is absent if it was absent).
C1_EnvRestoredAfterSingleCall ==
    (Settled(1) /\ WroteToken(1)) => env = env0

\* C2: while the client of a call starts and lists models, the environment
\* variable holds that call's own token, never the token of another call.
\* (When within start() and listModels() the client reads the variable is the
\* SDK's choice, so the variable has to hold the token throughout.)
C2_ClientFindsOwnToken ==
    \A c \in Calls : pc[c] \in {"starting", "listing"} => env = accessToken[c]

\* C3: once all of two or more concurrent calls have completed,
\* COPILOT_GITHUB_TOKEN has the value it had before the first began.  Stated
\* for the calls that wrote their token and did not end by the constructor
\* throwing, so that a violation shows the interleaving alone.
C3_EnvRestoredAfterConcurrentCalls ==
    (\A c \in Calls : /\ Settled(c)
                      /\ WroteToken(c)
                      /\ outcome[c].error # ConstructError)
        => env = env0

\* C9: when start() or listModels() failed or timed out, the error the call
\* throws is that error (of the phase that failed), also when stop() rejected
\* in the cleanup, and the environment is restored before client.stop() is
\* awaited, so before the error propagates.
C9_CleanupNeverMasksError ==
    /\ pc[1] = "stoppingAfterError" => env = env0
    /\ (pc[1] = "threw" /\ caught[1] # NoError) =>
          /\ outcome[1] = Threw(caught[1])
          /\ outcome[1].error \in
                (IF listTimer[1] = "unarmed"
                 THEN {StartError, StartTimeoutError}
                 ELSE {ListError, ListTimeoutError})
          /\ env = env0

\* A start or listing failure whose cleanup stop() rejected, after which the
\* call threw.
C9_Witness ==
    /\ pc[1] = "threw"
    /\ caught[1] \in RaceErrors
    /\ stopResult[1] = "rejected"

\* C10: fetchModels never returns an empty list: when the list it resolves is
\* empty it fails with a no-models error, in each strategy.
C10_NeverReturnsEmptyList ==
    \A c \in Calls : outcome[c].kind = "return" => Len(outcome[c].models) > 0

\* The identifiers of a list of descriptors, in order.
IdsOf(ms) == [i \in 1..Len(ms) |-> ms[i].id]

\* The call has run steps of fetchCopilotModels: it was handed the token, or
\* it is or was past the dynamic import.
RanCopilot(c) ==
    \/ accessToken[c] # Undefined
    \/ pc[c] \in {"importing", "starting", "listing", "stopping", "stoppingAfterError"}
    \/ prevToken[c] # Undefined
    \/ startTimer[c] # "unarmed"
    \/ caught[c] # NoError

\* C11: fetchModels takes the first rule that matches and runs that strategy
\* alone: the Copilot listing when piAuthProvider is 'github-copilot' and an
\* OAuth access token is present, whatever the baseUrl; otherwise the custom
\* passthrough when a baseUrl is set; otherwise the registry, of the
\* connection's provider when it names one and whole when it names none.
C11_FirstMatchingStrategy ==
    strategy[1] # "none" =>
        LET copilotRule == conn[1].piAuthProvider = "github-copilot"
                           /\ oauth[1] \notin {Undefined, ""}
            customRule == conn[1].baseUrl \notin {Undefined, ""}
        IN /\ strategy[1] = "copilot" <=> copilotRule
           /\ strategy[1] = "custom" <=> (~copilotRule /\ customRule)
           /\ strategy[1] = "registry" <=> (~copilotRule /\ ~customRule)
           /\ strategy[1] = "copilot" =>
                 /\ accessToken[1] = oauth[1]
                 /\ outcome[1].kind = "return" =>
                        \A i \in 1..Len(outcome[1].models) :
                            \E j \in 1..Len(listed[1].items) :
                                outcome[1].models[i].id = listed[1].items[j].id
           /\ strategy[1] = "custom" =>
                 /\ ~RanCopilot(1)
                 /\ outcome[1].kind = "return"
                 /\ Len(outcome[1].models) =
                        (IF conn[1].models.defined THEN Len(conn[1].models.items) ELSE 0)
           /\ strategy[1] = "registry" =>
                 /\ ~RanCopilot(1)
                 /\ Settled(1)
                 /\ LET wanted == { i \in 1..Len(PiRegistry) :
                                      conn[1].piAuthProvider \in {Undefined, ""}
                                      \/ PiRegistry[i].piAuthProvider = conn[1].piAuthProvider }
                    IN IF wanted = {}
                       THEN outcome[1] = Threw(NoPiModelsError)
                       ELSE /\ outcome[1].kind = "return"
                            /\ { outcome[1].models[i] : i \in 1..Len(outcome[1].models) }
                                  = { PiRegistry[i].model : i \in wanted }

\* A Copilot connection that also has a baseUrl and a custom list, whose
\* call returned the remote listing.
C11_Witness ==
    /\ strategy[1] = "copilot"
    /\ conn[1].baseUrl = "https://llm.example"
    /\ conn[1].models.defined /\ Len(conn[1].models.items) > 0
    /\ outcome[1].kind = "return"

\* The remote models of the listing that the call has returned.
CopilotReturned == strategy[1] = "copilot" /\ outcome[1].kind = "return"

\* C12, as stated: a remote model is left out of the Copilot result exactly
\* when its policy state is 'disabled'; every other model is kept.
C12_DropsExactlyDisabled ==
    CopilotReturned =>
        LET NotDisabled(m) == m.policy # "disabled"
        IN IdsOf(outcome[1].models) = IdsOf(SelectSeq(listed[1].items, NotDisabled))

\* C12, amended: a remote model is kept exactly when it carries no policy
\* information or its policy state is 'enabled'; a model with any other
\* policy state ('disabled', 'unconfigured') is left out.
C12_KeepsNoPolicyOrEnabled ==
    CopilotReturned =>
        LET Kept(m) == m.policy \in {"none", "enabled"}
            kept == SelectSeq(listed[1].items, Kept)
        IN /\ Len(outcome[1].models) = Len(kept)
           /\ \A i \in 1..Len(kept) :
                 /\ outcome[1].models[i].id = kept[i].id
                 /\ outcome[1].models[i].name = kept[i].name

\* A returned Copilot listing that held an unconfigured model next to one
\* without policy information.
C12_Witness ==
    /\ CopilotReturned
    /\ \E i \in 1..Len(listed[1].items) : listed[1].items[i].policy = "unconfigured"
    /\ \E i \in 1..Len(listed[1].items) : listed[1].items[i].policy = "none"

\* C13: for a connection with a baseUrl that is not a Copilot connection with
\* a token, fetchModels returns connection.models entry by entry, in order: a
\* bare string s as a descriptor with id = name = s, a descriptor unchanged;
\* it creates no client, arms no timer and leaves the token variable alone.
C13_CustomPassthrough ==
    (/\ strategy[1] # "none"
     /\ conn[1].baseUrl \notin {Undefined, ""}
     /\ ~(conn[1].piAuthProvider = "github-copilot" /\ oauth[1] \notin {Undefined, ""}))
    =>
        LET given == IF conn[1].models.defined THEN conn[1].models.items ELSE <<>>
        IN /\ pc[1] = "returned"
           /\ outcome[1].kind = "return"
           /\ Len(outcome[1].models) = Len(given)
           /\ \A i \in 1..Len(given) :
                 IF given[i].isString
                 THEN /\ outcome[1].models[i].id = given[i].str
                      /\ outcome[1].models[i].name = given[i].str
                 ELSE outcome[1].models[i] = given[i].def
           /\ env = env0
           /\ prevToken[1] = Undefined
           /\ startTimer[1] = "unarmed" /\ listTimer[1] = "unarmed"
           /\ listed[1] = NoListing
           /\ stopResult[1] = "none"

\* A custom-endpoint call over a list that mixes a bare string with a full
\* descriptor.
C13_Witness ==
    /\ strategy[1] = "custom"
    /\ pc[1] = "returned"
    /\ Len(conn[1].models.items) = 2
    /\ conn[1].models.items[1].isString
    /\ ~conn[1].models.items[2].isString

\* C14: the identifiers of the list fetchModels returns are pairwise
\* different, in every strategy and for every input list.
C14_UniqueModelIds ==
    outcome[1].kind = "return" =>
        \A i, j \in 1..Len(outcome[1].models) :
            outcome[1].models[i].id = outcome[1].models[j].id => i = j

\* C20: once fetchCopilotModels has returned or thrown, no timer it armed for
\* the races against start() and listModels() is still pending.
C20_TimersClearedWhenSettled ==
    Settled(1) => startTimer[1] # "pending" /\ listTimer[1] # "pending"

(***************************************************************************)
(* Properties of the probe                                                 *)
(***************************************************************************)
\* The texts that mark a bot-challenge page.
ChallengeMarkers == { "Just a moment", "challenge-platform", "cf-" }
BodyHasMarker(body) == \E i \in 1..Len(body) : body[i] \in ChallengeMarkers

\* C4: a 401 gives {success:false} with the invalid-credential message; a 403
\* gives {success:true} when the body read contains a challenge marker and
\* {success:false} with the invalid-credential message when it contains none.
C4_UnauthorizedAndForbidden ==
    probePc = "done" =>
        /\ response.status = 401 => probeResult = Failure(InvalidCredentialReason)
        /\ (response.status = 403 /\ response.bodyRead) =>
              probeResult = (IF BodyHasMarker(response.body)
                             THEN Success
                             ELSE Failure(InvalidCredentialReason))

\* A 403 whose body holds only the "cf-" marker, reported as reachable.
C4_Witness ==
    /\ probePc = "done"
    /\ response.status = 403
    /\ response.bodyRead
    /\ response.body = << "<html>", "cf-" >>
    /\ probeResult = Success

\* C5: every status other than 401 and 403 gives {success:true} without an
\* error text.
C5_OtherStatusesSucceed ==
    (probePc = "done" /\ response.status \notin {0, 401, 403}) =>
        /\ probeResult.kind = "value"
        /\ probeResult.success
        /\ probeResult.error = NoReason

\* A 503 reported as reachable.
C5_Witness ==
    /\ probePc = "done"
    /\ response.status = 503
    /\ probeResult = Success

\* C6: the probe (behind testConnection) never throws: whatever the request
\* did, the call resolves to a value with a success flag, and with an error
\* text when the flag is false.
C6_ProbeNeverThrows ==
    (probePc = "done" /\ entry \in {"testConnection", "validateStoredConnection"}) =>
        /\ probeResult.kind = "value"
        /\ probeResult.success \in BOOLEAN
        /\ ~probeResult.success => probeResult.error.kind # "none"

\* A failure while reading the 403 body, resolved to a failure value.
C6_Witness ==
    /\ probePc = "done"
    /\ entry = "testConnection"
    /\ response.status = 403
    /\ ~response.bodyRead
    /\ probeErr \in TransportErrors
    /\ probeResult.kind = "value"
    /\ ~probeResult.success

\* C7: a request the timer aborted gives the timed-out reason; any other
\* transport error gives a reason with the endpoint and the raw error text.
C7_TimeoutAndTransportReasons ==
    (probePc = "done" /\ probeErr # NoJsError) =>
        probeResult =
            (IF aborted
             THEN Failure(TimedOutReason(EffectiveBase(args.baseUrl)))
             ELSE Failure(UnreachableReason(EffectiveBase(args.baseUrl),
                                            MessageOf(probeErr))))

\* C8: wherever the probe waits on the network (for the response, for the
\* body of a 403) the wait is raced against the timer: the timer is pending,
\* or it fired and the abort is on its way.
C8_EveryWaitRacesTheTimer ==
    probePc \in {"fetching", "readingBody"} => (timer = "pending" \/ aborted)

\* The call came in through validateStoredConnection for a key-style
\* connection and is past the read of the credential store.
KeyStyleValidated ==
    /\ entry = "validateStoredConnection"
    /\ storedConn.authType \in {"api_key", "api_key_with_endpoint"}
    /\ probePc # "readingKey"

\* C15: validateStoredConnection on an api_key or api_key_with_endpoint
\* connection whose slug has no key on record resolves to the key-not-found
\* failure without a request being made; a request is made only with the
\* non-empty key read for that slug.
C15_NoKeyNoProbe ==
    /\ (KeyStyleValidated /\ store[storedConn.slug] \in {Undefined, ""}) =>
          /\ probePc = "done"
          /\ probeResult = Failure(KeyNotFoundReason)
          /\ ~request.sent
          /\ timer = "unarmed"
    /\ (entry = "validateStoredConnection" /\ request.sent) =>
          /\ KeyStyleValidated
          /\ store[storedConn.slug] \notin {Undefined, ""}
          /\ request.apiKey = store[storedConn.slug]

\* A key-style connection whose slug has an empty key on record, while the
\* other slug has a key, validated to the key-not-found failure.
C15_Witness ==
    /\ KeyStyleValidated
    /\ store[storedConn.slug] = ""
    /\ \E s \in Slugs : store[s] = "sk-test"
    /\ probeResult = Failure(KeyNotFoundReason)

ConnectionOf(slug) == CHOOSE c \in SettingsConnections : c.slug = slug

\* C17: when handleEdit has opened an API-key connection by jumpToCredentials,
\* the seed of the credentials step holds the connection's endpoint and a
\* masked placeholder of the key, never the stored key itself.
C17_SeedHoldsNoRawKey ==
    (flowStart.kind = "jumpToCredentials" /\ showApiSetup /\ editInitialValues.defined) =>
        /\ editInitialValues.baseUrl = ConnectionOf(flowStart.slug).baseUrl
        /\ editInitialValues.apiKey \notin RawKeys

\* C18: at the call of jumpToCredentials by handleEdit, and of handleStartOAuth
\* by handleReauthenticate, the onboarding hook that is called has editingSlug
\* equal to the slug of the connection.
C18_HookHasEditingSlugAtCall ==
    flowStart.kind \in {"jumpToCredentials", "handleStartOAuth"} =>
        flowStart.editingSlug = flowStart.slug

\* C19: with status 'error' every variant of the credentials step shows the
\* step with its retry action enabled and an inline error: the variants that
\* draw the error themselves draw it, the others hand the error status to the
\* input they embed; also when there is no error text.
C19_ErrorShownAndRetryEnabled ==
    (stepView # NoView /\ stepProps.component = "CredentialsStep"
     /\ stepProps.status = "error") =>
        /\ stepView.variant # "none"
        /\ ~stepView.continueDisabled /\ ~stepView.continueLoading
        /\ stepView.continueAction \in {"submit", "onStartOAuth"}
        /\ IF stepView.child = "none"
           THEN stepView.errorBox
           ELSE stepView.childStatus = "error"

C22_EventuallySettles ==
    /\ (strategy[1] = "copilot") ~> Settled(1)
    /\ (pc[1] = "stopping") ~> (env = env0)

\* C23: the probe gives the timed-out reason only when its timer fired and
\* aborted the request; an error of the transport before that is never
\* reported as a timeout.
C23_TimeoutOnlyWhenTimerFired ==
    (probePc = "done" /\ probeResult.kind = "value" /\ probeResult.error.kind = "timedOut") =>
        (timer = "fired" /\ aborted)

(***************************************************************************)
(* Further properties of the settings page                                 *)
(***************************************************************************)
\* C26: while the overlay is shown, editInitialValues is undefined or holds
\* the values of the connection whose slug is editingConnectionSlug.
C26_SeedOfEditedConnection ==
    (showApiSetup /\ editInitialValues.defined) =>
        \E c \in SettingsConnections :
            /\ c.slug = editingConnectionSlug
            /\ editInitialValues \in { EditSeed(c, Undefined), EditSeed(c, RawKeyOf(c.slug)) }

\* C27: the method an existing connection is re-entered with maps back,
\* through apiSetupMethodToConnectionTypes, to the provider type and the auth
\* type of the connection.
C27_MethodMapsBackToConnection ==
    flowStart.kind \in {"jumpToCredentials", "handleStartOAuth"} =>
        LET types == apiSetupMethodToConnectionTypes(flowStart.method)
        IN /\ types.providerType = ConnectionOf(flowStart.slug).providerType
           /\ types.authType = ConnectionOf(flowStart.slug).authType

\* C24: while a testLlmConnection call of a slug is pending, the validation
\* state of the slug is 'validating' and no second call of the slug is
\* pending; a timer of an earlier validation does not change the state
\* during a later one.
C24_ValidatingWhileInFlight ==
    \A slug \in ValidatedSlugs :
        testsInFlight[slug] > 0 =>
            /\ validationStates[slug].state = "validating"
            /\ testsInFlight[slug] = 1

\* C25: a validation whose test settled brings the state of its slug back to
\* 'idle', and a step changes the validation state of one slug only, a slug
\* with a call or a timer of its own.
C25_BackToIdleOwnSlugOnly ==
    /\ \A slug \in ValidatedSlugs :
          (validationStates[slug].state \in {"success", "error"}) ~>
              (validationStates[slug].state = "idle")
    /\ [][\A slug \in ValidatedSlugs :
             validationStates'[slug] # validationStates[slug] =>
                 /\ \A other \in ValidatedSlugs \ {slug} :
                        validationStates'[other] = validationStates[other]
                 /\ \/ testsInFlight'[slug] # testsInFlight[slug]
                    \/ resetTimers'[slug] # resetTimers[slug]]_vars

\* One slug failed by a thrown error while the other is being validated.
C25_Witness ==
    /\ validationStates["pi-custom"] = ValidationState("error", "Validation failed")
    /\ validationStates["copilot"].state = "validating"
    /\ testsInFlight["copilot"] = 1

\* C30: in status 'validating' the left button of every variant of the
\* credentials step and of the local-model step, Back or Cancel, is disabled;
\* the completion step has its finish action in status 'complete' and in no
\* other.
C30_NoBackWhileValidating ==
    stepView # NoView =>
        /\ (stepProps.component \in {"CredentialsStep", "LocalModelStep"}
            /\ stepProps.status = "validating") =>
              /\ stepView.backAction \in {"onBack", "onCancelOAuth"}
              /\ stepView.backDisabled
        /\ stepProps.component = "CompletionStep" =>
              /\ stepView.backAction = "none"
              /\ stepView.continueAction = "onFinish" <=> stepProps.status = "complete"

\* The Claude step that waits for the code, rendered while the code is
\* being validated: its left button cancels the OAuth flow.
C30_Witness ==
    /\ stepView.variant = "claude-auth-code"
    /\ stepProps.status = "validating"
    /\ stepView.backAction = "onCancelOAuth"

(***************************************************************************)
(* Properties of the list of connections                                   *)
(***************************************************************************)
\* C28: a list of connections that is not empty stays that way, whatever is
\* deleted through the detail panel and in whatever order the deletions
\* settle.
C28_LastConnectionNeverDeleted ==
    [][llmConnections # <<>> => llmConnections' # <<>>]_vars

\* C29: once the auto-select effect has run for the list, the selection is
\* null exactly when the list is empty and is otherwise a slug of the list;
\* a selection that was in the list is kept, one that was not is replaced by
\* the first connection.
C29_AutoSelectKeepsValidSelection ==
    ~autoSelect.due =>
        /\ selectedSlug = Null <=> llmConnections = <<>>
        /\ llmConnections # <<>> =>
              /\ selectedSlug \in SlugsOf(llmConnections)
              /\ autoSelect.before \in SlugsOf(llmConnections) =>
                    selectedSlug = autoSelect.before
              /\ autoSelect.before \notin SlugsOf(llmConnections) =>
                    selectedSlug = llmConnections[1]

\* The selected connection, not the first of the list, was deleted, and the
\* effect selected the first connection in its place.
C29_Witness ==
    /\ ~autoSelect.due
    /\ autoSelect.before \in ListSlugs \ SlugsOf(llmConnections)
    /\ Len(llmConnections) = 2
    /\ selectedSlug = llmConnections[1]

====
